---- MODULE Spec2Model ----
(***************************************************************************)
(* filter_short_reads.py: remove reads whose sequence is <= a threshold    *)
(* from FASTQ files (single-end, split paired-end, interleaved).           *)
(*                                                                         *)
(* A string is a sequence of one-character strings; a file is a sequence   *)
(* of lines (the line terminator is not part of a line); a dict is a       *)
(* function from its keys to its values; None is the empty set and a       *)
(* value v that may be None is held as {v}.                                *)
(***************************************************************************)
EXTENDS Integers, Sequences, FiniteSets, TLC

VARIABLES
    \* ---- the filter run (main) ----
    args,        \* the parsed command line (getargs)
    fs,          \* the file system: path -> sequence of lines
    pc,          \* position of main
    fwd_ids,     \* get_skip_ids(args.forwardreads, ...)
    rev_ids,     \* get_skip_ids(args.reversereads, ...)
    skip_ids,    \* main's skip_ids
    exit_code,   \* None, or the status the process ended with
    scan_log,    \* path -> per line record of get_skip_ids' loop
    write_log,   \* path -> per line record of write_filtered_output's loop
    written,     \* the output paths written, in order
    run,         \* 1: the first run, 2: the run over the first run's output
    \* ---- parse_read_id on the two mates of a fragment ----
    frag,        \* the fragment: name, separator, annotation
    header1,     \* header line of mate 1
    header2,     \* header line of mate 2
    paired_end_flag,
    read_id1,    \* None or {parse_read_id(header1, paired_end_flag)}
    read_id2,    \* None or {parse_read_id(header2, paired_end_flag)}
    \* ---- the output name of write_filtered_output ----
    outputfile,
    read_direction,
    this_outputfile   \* None or {the path}

vars == <<args, fs, pc, fwd_ids, rev_ids, skip_ids, exit_code, scan_log,
          write_log, written, run, frag, header1, header2, paired_end_flag,
          read_id1, read_id2, outputfile, read_direction, this_outputfile>>

runVars == <<args, fs, pc, fwd_ids, rev_ids, skip_ids, exit_code, scan_log,
             write_log, written, run>>
idVars == <<frag, header1, header2, paired_end_flag, read_id1, read_id2>>
nameVars == <<outputfile, read_direction, this_outputfile>>

None == {}
Some(v) == {v}
TheValue(o) == CHOOSE v \in o : TRUE

(***************************************************************************)
(* Strings                                                                 *)
(***************************************************************************)
Whitespace == {" ", "\t"}

RECURSIVE Rep(_, _)
Rep(c, n) == IF n = 0 THEN <<>> ELSE <<c>> \o Rep(c, n - 1)

StartsWith(s, p) == Len(s) >= Len(p) /\ SubSeq(s, 1, Len(p)) = p
EndsWith(s, p) == Len(s) >= Len(p) /\ SubSeq(s, Len(s) - Len(p) + 1, Len(s)) = p

LowerChar(c) ==
    CASE c = "G" -> "g" [] c = "Z" -> "z" [] c = "F" -> "f" [] c = "Q" -> "q"
      [] c = "A" -> "a" [] c = "S" -> "s" [] c = "T" -> "t" [] c = "R" -> "r"
      [] c = "L" -> "l" [] c = "I" -> "i" [] c = "M" -> "m" [] c = "C" -> "c"
      [] OTHER -> c

\* str.lower()
Lower(s) == [i \in 1..Len(s) |-> LowerChar(s[i])]

\* str.rstrip(): the line without its trailing whitespace
RECURSIVE RStrip(_)
RStrip(s) ==
    IF s # <<>> /\ s[Len(s)] \in Whitespace THEN RStrip(SubSeq(s, 1, Len(s) - 1))
    ELSE s

(***************************************************************************)
(* parse_read_id                                                           *)
(***************************************************************************)
\* the character classes of the regular expression of line 67
Seps == {"/", ".", "_", "-", ":", ";"}
Markers == {"0", "1", "2", "l", "r", "L", "R", "f", "F", "5", "3"}

\* re.sub("[ \t]+.*$", "", s): s up to its first blank or tab
TruncWS(s) ==
    IF \E i \in 1..Len(s) : s[i] \in Whitespace
    THEN LET i == CHOOSE j \in 1..Len(s) :
                      /\ s[j] \in Whitespace
                      /\ \A k \in 1..(j - 1) : s[k] \notin Whitespace
         IN SubSeq(s, 1, i - 1)
    ELSE s

\* ''.join(s.rsplit('.', 1)): s without its last '.'
RemoveLastDot(s) ==
    IF \E i \in 1..Len(s) : s[i] = "."
    THEN LET i == CHOOSE j \in 1..Len(s) :
                      /\ s[j] = "."
                      /\ \A k \in (j + 1)..Len(s) : s[k] # "."
         IN SubSeq(s, 1, i - 1) \o SubSeq(s, i + 1, Len(s))
    ELSE s

\* where "[\/\.\_\-\:\;][012lrLRfrFR53]\'*$" matches in s: a separator, a
\* marker, then apostrophes to the end
MateSuffixAt(s, i) ==
    /\ i + 1 <= Len(s)
    /\ s[i] \in Seps
    /\ s[i + 1] \in Markers
    /\ \A k \in (i + 2)..Len(s) : s[k] = "'"

\* re.sub ("[\/\.\_\-\:\;][012lrLRfrFR53]\'*$", "", s)
StripMateSuffix(s) ==
    IF \E i \in 1..Len(s) : MateSuffixAt(s, i)
    THEN LET i == CHOOSE j \in 1..Len(s) :
                      /\ MateSuffixAt(s, j)
                      /\ \A k \in 1..(j - 1) : ~MateSuffixAt(s, k)
         IN SubSeq(s, 1, i - 1)
    ELSE s

parse_read_id(header_line, paired) ==
    LET read_id == TruncWS(header_line)
    IN IF paired THEN StripMateSuffix(RemoveLastDot(read_id)) ELSE read_id

(***************************************************************************)
(* write_filtered_output: the name of the output file (lines 112-129)      *)
(***************************************************************************)
\* whether pattern p matches s at i, ignoring case; a '.' of the pattern is
\* the regular expression's "any character"
MatchesAt(p, s, i) ==
    /\ i + Len(p) - 1 <= Len(s)
    /\ \A k \in 1..Len(p) :
          p[k] = "." \/ LowerChar(p[k]) = LowerChar(s[i + k - 1])

\* re.sub(p, '', s, flags=re.IGNORECASE): every non-overlapping match of p,
\* leftmost first, is removed
RECURSIVE ReSubFrom(_, _, _)
ReSubFrom(p, s, i) ==
    IF i > Len(s) THEN <<>>
    ELSE IF MatchesAt(p, s, i) THEN ReSubFrom(p, s, i + Len(p))
    ELSE <<s[i]>> \o ReSubFrom(p, s, i + 1)

ReSubIgnoreCase(p, s) == ReSubFrom(p, s, 1)

DotGz == <<".", "g", "z">>
DotFq == <<".", "f", "q">>
DotFastq == <<".", "f", "a", "s", "t", "q">>
R1 == <<"R", "1">>
R2 == <<"R", "2">>

\* direction is None or {R1} or {R2}
OutputFileName(outfile, direction) ==
    LET gzip_output == EndsWith(Lower(outfile), DotGz)
        nogz == IF gzip_output THEN ReSubIgnoreCase(DotGz, outfile) ELSE outfile
        extension == IF EndsWith(Lower(nogz), DotFq) THEN DotFq ELSE DotFastq
        base == ReSubIgnoreCase(extension, nogz)
        tagged == base \o <<".">> \o TheValue(direction) \o extension
    IN IF direction = None THEN outfile
       ELSE IF gzip_output THEN tagged \o DotGz ELSE tagged

(***************************************************************************)
(* Dicts                                                                   *)
(***************************************************************************)
EmptyDict == [k \in {} |-> TRUE]
DictSet(d, k, v) == [x \in (DOMAIN d) \cup {k} |-> IF x = k THEN v ELSE d[x]]

(***************************************************************************)
(* get_skip_ids (lines 73-101)                                             *)
(***************************************************************************)
AtSign == <<"@">>

\* line 86-87
ScanCounter(counter) == IF counter = 4 THEN 0 ELSE counter

\* line 88
ScanIsHeader(line, counter) == StartsWith(line, AtSign) /\ counter = 0

\* line 94
IsShort(line, skip_len) == Len(line) <= skip_len

\* the loop body, lines 85-97; st is the loop's state
ScanStep(st, rawline, skip_len, paired) ==
    LET line == RStrip(rawline)
        counter == ScanCounter(st.counter)
        header == ScanIsHeader(line, counter)
        tested == ~header /\ st.this_id # None
        id == parse_read_id(line, paired)
    IN [this_id |-> IF header THEN Some(id) ELSE None,
        counter |-> counter + 1,
        read_cnt |-> IF header THEN st.read_cnt + 1 ELSE st.read_cnt,
        these_skip_ids |->
            IF tested /\ IsShort(line, skip_len)
            THEN DictSet(st.these_skip_ids, TheValue(st.this_id), TRUE)
            ELSE st.these_skip_ids,
        log |-> Append(st.log, [counter |-> counter, header |-> header,
                                id |-> IF header THEN Some(id) ELSE None,
                                tested |-> tested])]

RECURSIVE ScanFrom(_, _, _, _, _)
ScanFrom(lines, i, st, skip_len, paired) ==
    IF i > Len(lines) THEN st
    ELSE ScanFrom(lines, i + 1, ScanStep(st, lines[i], skip_len, paired),
                  skip_len, paired)

\* the loop of get_skip_ids over the lines of readsfile, from lines 81-83
ScanLoop(lines, skip_len, paired) ==
    ScanFrom(lines, 1,
             [this_id |-> None, counter |-> 0, read_cnt |-> 0,
              these_skip_ids |-> EmptyDict, log |-> <<>>],
             skip_len, paired)

get_skip_ids(lines, skip_len, paired) ==
    ScanLoop(lines, skip_len, paired).these_skip_ids

(***************************************************************************)
(* write_filtered_output (lines 144-170)                                   *)
(***************************************************************************)
\* out.write("\n".join(read_buf)+"\n"): the lines this adds to the file; an
\* empty read_buf writes "\n", one empty line
WriteText(read_buf) == IF read_buf = <<>> THEN << <<>> >> ELSE read_buf

\* line 151-152
WriteCounter(counter) == IF counter = 4 THEN 0 ELSE counter

\* the header test without the position in the group
WriteIsHeaderAnywhere(line, counter) == StartsWith(line, AtSign)

\* line 157
WriteIsHeader(line, counter) == StartsWith(line, AtSign) /\ counter = 0

\* the membership test failing: no read is ever skipped
InSkipIdsNever(id, ids) == FALSE

\* line 159
InSkipIds(id, ids) == id \in DOMAIN ids

\* the loop body, lines 150-165
WriteStep(st, rawline, ids, paired) ==
    LET line == RStrip(rawline)
        reset == st.counter = 4
        counter == WriteCounter(st.counter)
        out == IF reset /\ ~st.skip_read THEN st.out \o WriteText(st.read_buf)
               ELSE st.out
        read_buf == IF reset THEN <<>> ELSE st.read_buf
        skip_read == IF reset THEN FALSE ELSE st.skip_read
        header == WriteIsHeader(line, counter)
        id == parse_read_id(line, paired)
    IN [this_id |-> IF header THEN Some(id) ELSE st.this_id,
        counter |-> counter + 1,
        read_buf |-> Append(read_buf, line),
        skip_read |-> IF header /\ InSkipIds(id, ids) THEN TRUE ELSE skip_read,
        read_cnt |-> IF header THEN st.read_cnt + 1 ELSE st.read_cnt,
        out |-> out,
        log |-> Append(st.log, [counter |-> counter, header |-> header,
                                id |-> IF header THEN Some(id) ELSE None])]

RECURSIVE WriteFrom(_, _, _, _, _)
WriteFrom(lines, i, st, ids, paired) ==
    IF i > Len(lines) THEN st
    ELSE WriteFrom(lines, i + 1, WriteStep(st, lines[i], ids, paired), ids, paired)

\* the loop and the flush after it ("one more", lines 166-167)
WriteLoop(lines, ids, paired) ==
    LET st == WriteFrom(lines, 1,
                        [this_id |-> None, counter |-> 0, read_buf |-> <<>>,
                         skip_read |-> FALSE, read_cnt |-> 0, out |-> <<>>,
                         log |-> <<>>],
                        ids, paired)
    IN [st EXCEPT !.out = IF ~st.skip_read THEN st.out \o WriteText(st.read_buf)
                          ELSE st.out]

\* the path written and the lines written to it
write_filtered_output(ids, outfile, lines, paired, direction) ==
    LET st == WriteLoop(lines, ids, paired)
    IN [path |-> OutputFileName(outfile, direction), out |-> st.out,
        log |-> st.log]

(***************************************************************************)
(* merge_skip_ids (lines 177-186)                                          *)
(***************************************************************************)
\* the merge without its first loop: the keys of base are lost
merge_skip_ids_new_only(base_skip_ids, new_skip_ids) ==
    [exit |-> None, merged |-> new_skip_ids]

\* exit is -2 (sys.exit(-2)) when two values of a key differ
merge_skip_ids(base_skip_ids, new_skip_ids) ==
    LET mismatch == \E k \in DOMAIN new_skip_ids :
                        /\ k \in DOMAIN base_skip_ids
                        /\ base_skip_ids[k] # new_skip_ids[k]
    IN [exit |-> IF mismatch THEN Some(0 - 2) ELSE None,
        merged |-> [k \in (DOMAIN base_skip_ids) \cup (DOMAIN new_skip_ids) |->
                       IF k \in DOMAIN new_skip_ids THEN new_skip_ids[k]
                       ELSE base_skip_ids[k]]]

(***************************************************************************)
(* getargs (lines 20-57) and the inputs of a run                           *)
(***************************************************************************)
default_len == 25

ForwardPath == <<"f", ".", "f", "q">>
ReversePath == <<"r", ".", "f", "q">>
OutputBase == <<"o", ".", "f", "q">>
RerunBase == <<"n", ".", "f", "q">>

\* the checks of lines 36-55 and the mutually exclusive group of line 23
getargs_ok(a) ==
    /\ a.outputfile # None
    /\ ~(a.singleend /\ a.pairedend)
    /\ a.singleend \/ a.pairedend
    /\ ~(a.singleend /\ a.reversereads # None)
    /\ ~(a.pairedend /\ ~a.interleaved /\ a.reversereads = None)
    /\ ~(a.interleaved /\ a.reversereads # None)

ArgSpace ==
    [singleend : BOOLEAN, pairedend : BOOLEAN, interleaved : BOOLEAN,
     forwardreads : {ForwardPath}, reversereads : {None, Some(ReversePath)},
     outputfile : {Some(OutputBase)}, length : {default_len}]

\* most records a file holds
MaxRecs == 2

Plus == <<"+">>
\* a FASTQ record: header, sequence, separator, quality (here all '@', the
\* character of quality 31)
Record(header, n, sep) == <<header, Rep("A", n), sep, Rep("@", n)>>

ForwardRecords ==
    { Record(<<"@", "p", "/", "1">>, 25, Plus),
      Record(<<"@", "p", "/", "1">>, 40, Plus),
      Record(<<"@", "p", ".", "1">>, 10, Plus),
      Record(<<"@", "p", "/", "2">>, 40, Plus),
      Record(<<"@", "p", ".", "2">>, 40, Plus),
      Record(<<"q", "/", "1">>, 10, <<"+", " ">>) }

ReverseRecords ==
    { Record(<<"@", "p", "/", "2">>, 40, Plus),
      Record(<<"@", "p", ".", "2">>, 40, Plus),
      Record(<<"@", "p", "/", "2">>, 10, Plus) }

RECURSIVE FilesOf(_, _)
FilesOf(recs, n) ==
    IF n = 0 THEN {<<>>}
    ELSE LET fewer == FilesOf(recs, n - 1)
         IN fewer \cup {f \o r : f \in fewer, r \in recs}

\* a file may end in a group of fewer than 4 lines
Cuts == {0, 2, 3}
CutsOf(f) == {SubSeq(f, 1, Len(f) - c) : c \in {d \in Cuts : d <= Len(f)}}
ForwardFiles == UNION {CutsOf(f) : f \in FilesOf(ForwardRecords, MaxRecs)}
ReverseFiles == FilesOf(ReverseRecords, MaxRecs)

SplitPaired(a) == a.pairedend /\ ~a.interleaved

IdleRun ==
    /\ args = None /\ fs = <<>> /\ pc = "idle" /\ fwd_ids = EmptyDict
    /\ rev_ids = EmptyDict /\ skip_ids = EmptyDict /\ exit_code = None
    /\ scan_log = <<>> /\ write_log = <<>> /\ written = <<>> /\ run = 0
IdleId ==
    /\ frag = None /\ header1 = <<>> /\ header2 = <<>>
    /\ paired_end_flag = FALSE /\ read_id1 = None /\ read_id2 = None
IdleName ==
    /\ outputfile = <<>> /\ read_direction = None /\ this_outputfile = None

InitRun ==
    /\ args \in {a \in ArgSpace : getargs_ok(a)}
    /\ \/ /\ args.reversereads = None
          /\ \E f \in ForwardFiles : fs = (ForwardPath :> f)
       \/ /\ args.reversereads # None
          /\ \E f \in ForwardFiles, r \in ReverseFiles :
                fs = (ForwardPath :> f) @@ (ReversePath :> r)
    /\ pc = "get_skip_ids"
    /\ fwd_ids = EmptyDict /\ rev_ids = EmptyDict /\ skip_ids = EmptyDict
    /\ exit_code = None
    /\ scan_log = <<>> /\ write_log = <<>> /\ written = <<>>
    /\ run = 1

(***************************************************************************)
(* main (lines 191-224)                                                    *)
(***************************************************************************)
\* line 195
GetSkipIdsForward ==
    /\ pc = "get_skip_ids"
    /\ LET st == ScanLoop(fs[args.forwardreads], args.length, args.pairedend)
       IN /\ fwd_ids' = st.these_skip_ids
          /\ skip_ids' = st.these_skip_ids
          /\ scan_log' = (args.forwardreads :> st.log) @@ scan_log
    /\ pc' = IF SplitPaired(args) THEN "get_skip_ids_reverse" ELSE "check"
    /\ UNCHANGED <<args, fs, rev_ids, exit_code, write_log, written, run>>
    /\ UNCHANGED <<idVars, nameVars>>

\* line 197, the argument get_skip_ids (args.reversereads, ...)
GetSkipIdsReverse ==
    /\ pc = "get_skip_ids_reverse"
    /\ LET path == TheValue(args.reversereads)
           st == ScanLoop(fs[path], args.length, args.pairedend)
       IN /\ rev_ids' = st.these_skip_ids
          /\ scan_log' = (path :> st.log) @@ scan_log
    /\ pc' = "merge"
    /\ UNCHANGED <<args, fs, fwd_ids, skip_ids, exit_code, write_log, written, run>>
    /\ UNCHANGED <<idVars, nameVars>>

\* line 197, the call of merge_skip_ids and the assignment
MergeSkipIds ==
    /\ pc = "merge"
    /\ LET m == merge_skip_ids(skip_ids, rev_ids)
       IN IF m.exit # None
          THEN /\ exit_code' = m.exit
               /\ pc' = "exit"
               /\ UNCHANGED skip_ids
          ELSE /\ skip_ids' = m.merged
               /\ pc' = "check"
               /\ UNCHANGED exit_code
    /\ UNCHANGED <<args, fs, fwd_ids, rev_ids, scan_log, write_log, written, run>>
    /\ UNCHANGED <<idVars, nameVars>>

\* the test of line 199 inverted
NoReadsToFilterInverted(ids) == DOMAIN ids # {}

\* line 199: not skip_ids
NoReadsToFilter(ids) == DOMAIN ids = {}

\* lines 199-202
CheckSkipIds ==
    /\ pc = "check"
    /\ IF NoReadsToFilter(skip_ids)
       THEN pc' = "done" /\ exit_code' = Some(0)
       ELSE pc' = "write_forward" /\ UNCHANGED exit_code
    /\ UNCHANGED <<args, fs, fwd_ids, rev_ids, skip_ids, scan_log, write_log,
                   written, run>>
    /\ UNCHANGED <<idVars, nameVars>>

\* lines 216: whether the reverse output is written
WritesReverse(a) == a.pairedend /\ a.reversereads # None

\* lines 204-212
WriteForward ==
    /\ pc = "write_forward"
    /\ LET direction == IF SplitPaired(args) THEN Some(R1) ELSE None
           w == write_filtered_output(skip_ids, TheValue(args.outputfile),
                                      fs[args.forwardreads], args.pairedend,
                                      direction)
       IN /\ fs' = (w.path :> w.out) @@ fs
          /\ written' = Append(written, w.path)
          /\ write_log' = (args.forwardreads :> w.log) @@ write_log
    /\ IF WritesReverse(args)
       THEN pc' = "write_reverse" /\ UNCHANGED exit_code
       ELSE pc' = "done" /\ exit_code' = Some(0)
    /\ UNCHANGED <<args, fwd_ids, rev_ids, skip_ids, scan_log, run>>
    /\ UNCHANGED <<idVars, nameVars>>

\* lines 214-221
WriteReverse ==
    /\ pc = "write_reverse"
    /\ LET path == TheValue(args.reversereads)
           w == write_filtered_output(skip_ids, TheValue(args.outputfile),
                                      fs[path], args.pairedend, Some(R2))
       IN /\ fs' = (w.path :> w.out) @@ fs
          /\ written' = Append(written, w.path)
          /\ write_log' = (path :> w.log) @@ write_log
    /\ pc' = "done"
    /\ exit_code' = Some(0)
    /\ UNCHANGED <<args, fwd_ids, rev_ids, skip_ids, scan_log, run>>
    /\ UNCHANGED <<idVars, nameVars>>

\* main run again, in the same mode and with the same length, on the files
\* the first run wrote
Rerun ==
    /\ pc = "done"
    /\ run = 1
    /\ written # <<>>
    /\ args' = [args EXCEPT !.forwardreads = written[1],
                            !.reversereads = IF Len(written) = 2
                                             THEN Some(written[2]) ELSE None,
                            !.outputfile = Some(RerunBase)]
    /\ pc' = "get_skip_ids"
    /\ run' = 2
    /\ fwd_ids' = EmptyDict /\ rev_ids' = EmptyDict /\ skip_ids' = EmptyDict
    /\ exit_code' = None
    /\ scan_log' = <<>> /\ write_log' = <<>> /\ written' = <<>>
    /\ UNCHANGED fs
    /\ UNCHANGED <<idVars, nameVars>>

Init == InitRun /\ IdleId /\ IdleName

Next ==
    \/ GetSkipIdsForward
    \/ GetSkipIdsReverse
    \/ MergeSkipIds
    \/ CheckSkipIds
    \/ WriteForward
    \/ WriteReverse
    \/ Rerun

Spec == Init /\ [][Next]_vars

(***************************************************************************)
(* parse_read_id applied to the headers of the two mates of a fragment     *)
(***************************************************************************)
FragmentNames ==
    { <<"@", "S", "I", "M", ".", "1">>,
      <<"@", "S", "R", "R", "5", "8", "9", "1", "5", "2", "0", ".", "1">>,
      <<"@", "A">>,
      <<"@", "a", "_", "1">> }
Annotations == { <<>>, <<" ", "x">>, <<"\t", "1", ":", "N">> }

MateHeaders ==
    /\ frag \in [name : FragmentNames, sep : Seps, annot : Annotations]
    /\ \E m1, m2 \in Markers :
          /\ header1 = frag.name \o <<frag.sep, m1>> \o frag.annot
          /\ header2 = frag.name \o <<frag.sep, m2>> \o frag.annot
    /\ paired_end_flag \in BOOLEAN
    /\ read_id1 = None
    /\ read_id2 = None

ParseMate1 ==
    /\ read_id1 = None
    /\ read_id1' = Some(parse_read_id(header1, paired_end_flag))
    /\ UNCHANGED <<frag, header1, header2, paired_end_flag, read_id2>>
    /\ UNCHANGED <<runVars, nameVars>>

ParseMate2 ==
    /\ read_id2 = None
    /\ read_id2' = Some(parse_read_id(header2, paired_end_flag))
    /\ UNCHANGED <<frag, header1, header2, paired_end_flag, read_id1>>
    /\ UNCHANGED <<runVars, nameVars>>

InitId == MateHeaders /\ IdleRun /\ IdleName

NextId == ParseMate1 \/ ParseMate2

SpecId == InitId /\ [][NextId]_vars

(***************************************************************************)
(* the output name for the base names and mate tags of a run               *)
(***************************************************************************)
Stems ==
    { <<"o", "u", "t">>,
      <<"m", "y", ".", "f", "q", ".", "d", "a", "t", "a">>,
      <<"b", "i", "g", "z", "i", "p">>,
      <<"a", ".", "g", "z", ".", "b">>,
      <<"r", "e", "f", "a", "s", "t", "q", "s">> }
Extensions ==
    { <<>>, DotFq, <<".", "F", "Q">>, DotFastq,
      <<".", "F", "a", "s", "t", "Q">> }
GzSuffixes == { <<>>, DotGz, <<".", "G", "Z">>, <<".", "G", "z">> }

OutputNames ==
    /\ outputfile \in {s \o e \o g : s \in Stems, e \in Extensions, g \in GzSuffixes}
    /\ read_direction \in {None, Some(R1), Some(R2)}
    /\ this_outputfile = None

\* lines 112-129
NameOutput ==
    /\ this_outputfile = None
    /\ this_outputfile' = Some(OutputFileName(outputfile, read_direction))
    /\ UNCHANGED <<outputfile, read_direction>>
    /\ UNCHANGED <<runVars, idVars>>

InitName == OutputNames /\ IdleRun /\ IdleId

NextName == NameOutput

SpecName == InitName /\ [][NextName]_vars

(***************************************************************************)
(* Records by position, for stating the properties                         *)
(***************************************************************************)
NumGroups(lines) == (Len(lines) + 3) \div 4
Group(lines, i) ==
    SubSeq(lines, 4 * (i - 1) + 1, IF 4 * i <= Len(lines) THEN 4 * i ELSE Len(lines))
GroupsOf(lines) == [i \in 1..NumGroups(lines) |-> Group(lines, i)]
Stripped(g) == [i \in 1..Len(g) |-> RStrip(g[i])]
Appears(g, lines) == \E i \in 1..NumGroups(lines) : Group(lines, i) = Stripped(g)
SeqLen(g) == Len(RStrip(g[2]))

\* the files a run reads; reversereads is None or {path}
SourcePaths(a) == {a.forwardreads} \cup a.reversereads
OutputOf(p) == IF p = args.forwardreads THEN written[1] ELSE written[2]

\* a header that ends in a separator and a mate marker, and what precedes
\* the marker
HasMateSuffix(h) == Len(h) >= 2 /\ h[Len(h)] \in Markers /\ h[Len(h) - 1] \in Seps
Fragment(h) == SubSeq(h, 1, Len(h) - 1)
Mates(h1, h2) == HasMateSuffix(h1) /\ HasMateSuffix(h2) /\ Fragment(h1) = Fragment(h2)
SamePair(h1, h2) == h1 = h2 \/ Mates(h1, h2)

CompleteRecord(g) == Len(g) = 4 /\ StartsWith(g[1], AtSign)
WellFormedFile(lines) ==
    /\ Len(lines) % 4 = 0
    /\ \A i \in 1..NumGroups(lines) : StartsWith(Group(lines, i)[1], AtSign)
    /\ \A i, j \in 1..NumGroups(lines) :
          i # j => Group(lines, i)[1] # Group(lines, j)[1]

(***************************************************************************)
(* C1: split paired-end: when either mate of a pair is short (sequence     *)
(* length <= T; the instance of the claim is forward 10, reverse 40, T 25) *)
(* neither the R1 nor the R2 output holds a record of the pair.            *)
(***************************************************************************)
C1_PairDroppedFromBoth ==
    (run = 1 /\ pc = "done" /\ SplitPaired(args)) =>
        LET fwd == fs[args.forwardreads]
            rev == fs[TheValue(args.reversereads)]
        IN \A i \in 1..NumGroups(fwd), j \in 1..NumGroups(rev) :
              LET f == Group(fwd, i)
                  r == Group(rev, j)
              IN (/\ CompleteRecord(f) /\ CompleteRecord(r)
                  /\ Mates(f[1], r[1])
                  /\ (SeqLen(f) <= args.length \/ SeqLen(r) <= args.length))
                 => /\ Len(written) = 2
                    /\ ~Appears(f, fs[written[1]])
                    /\ ~Appears(r, fs[written[2]])

(***************************************************************************)
(* C2: threshold law, end to end: on well-formed files (4-line records,    *)
(* '@' headers, no header twice in a file), when output is written, a      *)
(* record is in the output iff its sequence is longer than T (single-end)  *)
(* and iff no record of its pair has a sequence <= T (paired modes).       *)
(***************************************************************************)
C2_ThresholdLaw ==
    (/\ run = 1 /\ pc = "done" /\ written # <<>>
     /\ \A p \in SourcePaths(args) : WellFormedFile(fs[p]))
    => \A p \in SourcePaths(args) : \A i \in 1..NumGroups(fs[p]) :
          LET g == Group(fs[p], i)
          IN Appears(g, fs[OutputOf(p)]) <=>
                IF args.pairedend
                THEN \A q \in SourcePaths(args) : \A j \in 1..NumGroups(fs[q]) :
                        SamePair(g[1], Group(fs[q], j)[1])
                            => SeqLen(Group(fs[q], j)) > args.length
                ELSE SeqLen(g) > args.length

\* the records of a file whose normalized id is not in ids, in order
KeptRecords(lines, ids, paired) ==
    LET Kept(g) == parse_read_id(RStrip(g[1]), paired) \notin DOMAIN ids
        kept == SelectSeq(GroupsOf(lines), Kept)
    IN [i \in 1..Len(kept) |-> Stripped(kept[i])]

(***************************************************************************)
(* C5: write_filtered_output partitions the records of its input: the      *)
(* output is exactly the records whose normalized id is not in the skip    *)
(* set, whole and in input order (lines compared without trailing          *)
(* whitespace), also for an empty input and for a short last group.        *)
(***************************************************************************)
C5_WriterPartitions ==
    \A p \in DOMAIN write_log :
        GroupsOf(fs[OutputOf(p)]) = KeptRecords(fs[p], skip_ids, args.pairedend)

(***************************************************************************)
(* C6: idempotence: in the run over the output of a run (same mode, same   *)
(* length) every skip set built is empty: nothing more is dropped.         *)
(***************************************************************************)
C6_RerunDropsNothing ==
    run = 2 => /\ DOMAIN fwd_ids = {}
               /\ DOMAIN rev_ids = {}
               /\ DOMAIN skip_ids = {}
               /\ written = <<>>

\* the second run ended, and it length-tested a read that the first run kept
C6_Witness ==
    /\ run = 2 /\ pc = "done"
    /\ \E p \in DOMAIN scan_log : \E i \in 1..Len(scan_log[p]) : scan_log[p][i].tested

\* the skip set of all source files of the run
FinalSkipIds ==
    LET keys == UNION {DOMAIN get_skip_ids(fs[p], args.length, args.pairedend) :
                          p \in SourcePaths(args)}
    IN [k \in keys |-> TRUE]

ExpectedOutputs ==
    IF SplitPaired(args)
    THEN <<OutputFileName(TheValue(args.outputfile), Some(R1)),
           OutputFileName(TheValue(args.outputfile), Some(R2))>>
    ELSE <<TheValue(args.outputfile)>>

AllSequencesLong ==
    \A p \in SourcePaths(args) : \A i \in 1..Len(fs[p]) :
        i % 4 = 2 => Len(RStrip(fs[p][i])) > args.length

(***************************************************************************)
(* C7: a run writes output iff its final skip set is not empty: with an    *)
(* empty skip set (so when every sequence is longer than T) no file is     *)
(* written; otherwise one file per source file, named by the mate tag; and *)
(* a writer starts only when every source is scanned and the sets merged.  *)
(***************************************************************************)
C7_OutputIffSkipped ==
    /\ pc = "done" =>
          /\ written = <<>> <=> DOMAIN skip_ids = {}
          /\ written # <<>> => /\ written = ExpectedOutputs
                               /\ Len(written) = Cardinality(SourcePaths(args))
          /\ AllSequencesLong => written = <<>>
    /\ \A i \in 1..Len(written) : written[i] \in DOMAIN fs
    /\ (run = 1 /\ written = <<>>) => DOMAIN fs = SourcePaths(args)
    /\ (pc \in {"write_forward", "write_reverse"} \/ written # <<>>) =>
          /\ DOMAIN scan_log = SourcePaths(args)
          /\ skip_ids = FinalSkipIds
          /\ DOMAIN skip_ids # {}

\* a split paired-end run that wrote its R1 and its R2 file
C7_Witness ==
    /\ run = 1 /\ pc = "done" /\ SplitPaired(args)
    /\ Len(written) = 2 /\ written[1] # written[2]

(***************************************************************************)
(* C9: merge_skip_ids never takes its "mismatch" exit; its result has      *)
(* exactly the keys of its two arguments, and the arguments are what       *)
(* get_skip_ids returned.                                                  *)
(***************************************************************************)
C9_MergeIsUnion ==
    /\ pc # "exit"
    /\ exit_code # Some(0 - 2)
    /\ (SplitPaired(args) /\ pc \in {"check", "write_forward", "write_reverse", "done"}) =>
          /\ DOMAIN skip_ids = (DOMAIN fwd_ids) \cup (DOMAIN rev_ids)
          /\ \A k \in DOMAIN skip_ids : skip_ids[k] = TRUE
          /\ fwd_ids = get_skip_ids(fs[args.forwardreads], args.length, args.pairedend)
          /\ rev_ids = get_skip_ids(fs[TheValue(args.reversereads)], args.length,
                                    args.pairedend)

\* merged: two sets that share a key (the comparison of line 182 is made)
\* and are not the same set
C9_Witness ==
    /\ pc = "check" /\ SplitPaired(args)
    /\ (DOMAIN fwd_ids) \cap (DOMAIN rev_ids) # {}
    /\ DOMAIN fwd_ids # DOMAIN rev_ids

(***************************************************************************)
(* C10: over the same file the loops of get_skip_ids and                   *)
(* write_filtered_output hold the same counter at every line, take the     *)
(* same lines as headers and give them the same id; a header is always the *)
(* first line of a group of 4 and only a second line is length-tested.     *)
(***************************************************************************)
C10_RecordBoundariesAgree ==
    /\ \A p \in DOMAIN scan_log :
          /\ Len(scan_log[p]) = Len(fs[p])
          /\ \A i \in 1..Len(scan_log[p]) :
                /\ scan_log[p][i].counter = (i - 1) % 4
                /\ scan_log[p][i].header => i % 4 = 1
                /\ scan_log[p][i].tested => i % 4 = 2
    /\ \A p \in DOMAIN write_log :
          /\ p \in DOMAIN scan_log
          /\ Len(write_log[p]) = Len(scan_log[p])
          /\ \A i \in 1..Len(write_log[p]) :
                /\ write_log[p][i].counter = scan_log[p][i].counter
                /\ write_log[p][i].header = scan_log[p][i].header
                /\ write_log[p][i].id = scan_log[p][i].id

\* both loops ran over a file of two groups whose quality lines start '@'
C10_Witness ==
    \E p \in DOMAIN write_log :
        /\ Len(fs[p]) >= 8
        /\ \E i \in 1..Len(fs[p]) :
              /\ i % 4 = 0
              /\ StartsWith(fs[p][i], AtSign)
              /\ ~write_log[p][i].header

(***************************************************************************)
(* C3: normalization law: with paired=true the headers of the two mates,   *)
(* which differ only in the mate marker, get the same read id.             *)
(***************************************************************************)
C3_NormalizationLaw ==
    (paired_end_flag /\ read_id1 # None /\ read_id2 # None) => read_id1 = read_id2

(***************************************************************************)
(* C4: with paired=true the id of a header made of a fragment name, one    *)
(* separator and one mate marker is the fragment name, unchanged.          *)
(***************************************************************************)
C4_IdIsFragmentName ==
    (paired_end_flag /\ read_id1 # None /\ frag.annot = <<>>)
        => read_id1 = Some(frag.name)

\* the naming rule of the claim, applied to trailing suffixes only
DropLast(s, n) == SubSeq(s, 1, Len(s) - n)

NamingRule(o, direction) ==
    LET gz == EndsWith(Lower(o), DotGz)
        nogz == IF gz THEN DropLast(o, Len(DotGz)) ELSE o
        extension == IF EndsWith(Lower(nogz), DotFq) THEN DotFq ELSE DotFastq
        base == IF EndsWith(Lower(nogz), extension)
                THEN DropLast(nogz, Len(extension)) ELSE nogz
        tag == IF direction = None THEN <<>> ELSE <<".">> \o TheValue(direction)
    IN base \o tag \o extension \o (IF gz THEN DotGz ELSE <<>>)

(***************************************************************************)
(* C8: output naming: the path is O without a trailing '.gz' and then      *)
(* without a trailing '.fastq' or '.fq' (case-insensitive), then '.'+tag   *)
(* when there is a tag, then the extension ('.fastq' when O had none),     *)
(* then '.gz' when O had it; nothing else of O changes.                    *)
(***************************************************************************)
C8_OutputNaming ==
    this_outputfile # None =>
        this_outputfile = Some(NamingRule(outputfile, read_direction))

====
